---- MODULE Spec2Model ----
(***************************************************************************)
(* Feed monitoring, deduplication, backoff and notification fan-out of     *)
(* src/command/monitor.py, as a state machine.                             *)
(*                                                                         *)
(* A cycle (run_monitor_task) loads the feeds and polls them concurrently  *)
(* (__monitor).  A poll is split at the awaits where other coroutines can  *)
(* run and can observe or change shared state: the fetch (feed_get), the   *)
(* subscription queries, deactivate_feed, generate_message, the delivery   *)
(* (send_message) and unsub_all.  feed.save() only writes the poll's own   *)
(* row, so it is part of the step that reaches it.                         *)
(***************************************************************************)
EXTENDS Integers, Sequences, FiniteSets, TLC

(* ------------------------------------------------------------------ *)
(* Outcome tags (monitor.py 19-24)                                     *)
(* ------------------------------------------------------------------ *)
NOT_UPDATED == "not_updated"
CACHED == "cached"
EMPTY == "empty"
FAILED == "failed"
UPDATED == "updated"
SKIPPED == "skipped"
Outcomes == {NOT_UPDATED, CACHED, EMPTY, FAILED, UPDATED, SKIPPED}

(* ------------------------------------------------------------------ *)
(* Bounds of the model                                                 *)
(* ------------------------------------------------------------------ *)
\* the timer fires for the last time at or before this minute
MaxTime == 15
\* most newly-seen entries a fetched feed may hold (one __notify_all each)
MaxNew == 2

Feeds == {1, 2}
Users == {1, 2}
\* minutes between two firings of the timer that starts the cycles
TickStep == 15
\* the last minute of the timer in the runs whose source stays unreachable: more
\* than 101 failed polls take at the longest delay
MaxTimeLive == 6000

(* ------------------------------------------------------------------ *)
(* Program constants                                                   *)
(* ------------------------------------------------------------------ *)
\* Python None for next_check_time
None == -1
\* the deactivation threshold of line 136
ErrorLimit == 100
\* the error count from which the next check is delayed, line 143
BackoffFrom == 10
\* the cap on the interval factor of the delay, line 145
IntervalCap == 15
\* the cap on the error factor of the delay, line 145
FactorCap == 5
\* the least size the fingerprint history is cut to, line 176
HashesFloor == 100
\* db.effective_utils.EffectiveOptions.default_interval, line 144
DefaultInterval == 10
\* the status of a not-modified response, line 131
NotModified == 304

Min(a, b) == IF a < b THEN a ELSE b
Max(a, b) == IF a > b THEN a ELSE b
Range(s) == {s[i] : i \in 1..Len(s)}

(* ------------------------------------------------------------------ *)
(* Entries and fingerprints                                            *)
(* ------------------------------------------------------------------ *)
\* an entry of a parsed feed: its guid and link, 0 standing for a missing one
Entry(g, l) == [guid |-> g, link |-> l]

\* inner.utils.get_hash: a deterministic digest of the identifier
get_hash(guid) == 1000 + guid

\* line 162 without the fall-back to the link
entry_guid_no_link(entry) == entry.guid

\* line 162: entry.get('guid') or entry.get('link')
entry_guid(entry) == IF entry.guid # 0 THEN entry.guid ELSE entry.link

\* lines 161-169 without the test of line 166
updated_entries_unchecked(entries, old_hashes) ==
    SelectSeq(entries, LAMBDA e : entry_guid(e) # 0)

\* lines 161-169: the entries with an identifier whose hash is not in old_hashes,
\* in the order of the feed
updated_entries_of(entries, old_hashes) ==
    SelectSeq(entries, LAMBDA e : entry_guid(e) # 0
                                  /\ get_hash(entry_guid(e)) \notin Range(old_hashes))

\* lines 165, 168: the hashes of the updated entries, in the same order
updated_hashes_of(entries, old_hashes) ==
    LET ue == updated_entries_of(entries, old_hashes)
    IN  [i \in 1..Len(ue) |-> get_hash(entry_guid(ue[i]))]

\* Python's s[:k], k < 0 counting from the end
py_prefix(s, k) ==
    IF k >= 0 THEN SubSeq(s, 1, Min(k, Len(s)))
    ELSE SubSeq(s, 1, Max(Len(s) + k, 0))

\* line 176
hashes_length(n_entries) == Max(n_entries * 2, HashesFloor)

\* line 177 with the kept old hashes before the updated ones
new_hashes_old_first(updated_hashes, old_hashes, n_entries) ==
    py_prefix(old_hashes, hashes_length(n_entries) - Len(updated_hashes)) \o updated_hashes

\* line 177 without the room taken by the updated hashes
new_hashes_uncut(updated_hashes, old_hashes, n_entries) ==
    updated_hashes \o py_prefix(old_hashes, hashes_length(n_entries))

\* line 177
new_hashes_of(updated_hashes, old_hashes, n_entries) ==
    updated_hashes \o py_prefix(old_hashes, hashes_length(n_entries) - Len(updated_hashes))

(* ------------------------------------------------------------------ *)
(* Backoff                                                             *)
(* ------------------------------------------------------------------ *)
\* line 144: feed.interval or default_interval
interval_of(fd) == IF fd.interval # 0 THEN fd.interval ELSE DefaultInterval

\* the delay without the "+ 1" of line 145
next_check_interval_floor(interval, error_count) ==
    Min(interval, IntervalCap) * Min(error_count \div 10, FactorCap)

\* line 145 without the cap on the error factor
next_check_interval_uncapped(interval, error_count) ==
    Min(interval, IntervalCap) * (error_count \div 10 + 1)

\* line 145
next_check_interval(interval, error_count) ==
    Min(interval, IntervalCap) * Min(error_count \div 10 + 1, FactorCap)

\* line 136 with > in the place of >=
too_many_errors_strict(fd) == fd.error_count > ErrorLimit

\* line 136: the test that sends a failed fetch to the deactivation flow
too_many_errors(fd) == fd.error_count >= ErrorLimit

\* lines 140-147 without the test of line 146
fetch_failed_always_delayed(fd, t) ==
    LET ec == fd.error_count + 1
        nci == next_check_interval(interval_of(fd), ec)
    IN  [fd EXCEPT !.error_count = ec,
                   !.next_check_time = IF ec >= BackoffFrom THEN t + nci ELSE @]

\* lines 140-147 without the increment of line 140
fetch_failed_not_counted(fd, t) ==
    LET interval == interval_of(fd)
        nci == next_check_interval(interval, fd.error_count)
    IN  [fd EXCEPT !.next_check_time =
                       IF fd.error_count >= BackoffFrom /\ nci > interval
                       THEN t + nci ELSE @]

\* lines 140-147: the feed object after a failed fetch below the threshold
fetch_failed(fd, t) ==
    LET ec == fd.error_count + 1
        interval == interval_of(fd)
        nci == next_check_interval(interval, ec)
    IN  [fd EXCEPT !.error_count = ec,
                   !.next_check_time =
                       IF ec >= BackoffFrom /\ nci > interval THEN t + nci ELSE @]

\* line 126 without the test for status 304
recovers_parsed_only(fd, r) ==
    r.rss_d /\ (fd.error_count > 0 \/ fd.next_check_time # None)

\* line 126
recovers(fd, r) ==
    (r.rss_d \/ r.status = NotModified)
    /\ (fd.error_count > 0 \/ fd.next_check_time # None)

\* lines 127-128
recovered(fd) == [fd EXCEPT !.error_count = 0, !.next_check_time = None]

\* line 114 with <= in the place of <
not_due_inclusive(fd, t) == fd.next_check_time # None /\ t <= fd.next_check_time

\* line 114
not_due(fd, t) == fd.next_check_time # None /\ t < fd.next_check_time

(* ------------------------------------------------------------------ *)
(* State                                                               *)
(* ------------------------------------------------------------------ *)
VARIABLES
    now,             \* the clock, in minutes
    cycle_pc,        \* run_monitor_task: "due", "running", "returned", "raised", "stopped"
    tasks,           \* the feeds of the current (or last) cycle
    last_log,        \* the tallies of the last MonitoringLogs.log call
    db_feed,         \* the persisted Feed rows
    sub_state,       \* the persisted Sub rows: sub_state[f][u] = 1 when active
    feed,            \* the Feed objects as loaded by the cycle, line 74
    pc,              \* where each poll stands
    d,               \* what feed_get returned to each poll
    result,          \* what each poll returned
    saves,           \* feed.save() calls of each poll
    migrated,        \* whether the poll called migrate_to_new_url
    updated_entries, \* the newly-seen entries of each poll
    subs,            \* the subscribers read by the deactivation flow, line 223
    notify_pc,       \* where each __notify_all stands
    notify_subs,     \* the subscribers each __notify_all read, line 194
    send_pc,         \* where each __send stands
    lock,            \* __user_unsub_all_lock_bucket: whether the user's lock is held
    prev,            \* the poll before the current one, per feed
    remote           \* the contents each feed's source may serve

vars == <<now, cycle_pc, tasks, last_log, db_feed, sub_state, feed, pc, d,
          result, saves, migrated, updated_entries, subs, notify_pc, notify_subs,
          send_pc, lock, prev, remote>>

\* the __send coroutines of a poll: 0 is the deactivation notice, k >= 1 the
\* notification of the k-th updated entry
Slots == 0..MaxNew
NoSends == [k \in Slots |-> [u \in Users |-> "none"]]
NoNotify == [k \in 1..MaxNew |-> "none"]
NoNotifySubs == [k \in 1..MaxNew |-> {}]

\* a __send that has returned or raised
SendOver == {"none", "sent", "dropped", "unsubbed", "raised", "unsub_raised"}
\* a __send whose delivery ended in one of the three permanent failures
SendPermanent == {"dropped", "unsub", "unsubbed", "unsub_raised"}
\* a __send that called unsub_all
SendUnsub == {"unsub", "unsubbed", "unsub_raised"}
SendRaised == {"raised", "unsub_raised"}

(* ------------------------------------------------------------------ *)
(* The remote feeds and what feed_get returns                          *)
(* ------------------------------------------------------------------ *)
Guids(lo, hi) == [i \in 1..(hi - lo + 1) |-> Entry(lo + i - 1, lo + i - 1)]
Hashes(n) == [i \in 1..n |-> get_hash(i)]

\* a feed of 52 entries, more than half of HashesFloor
BulkLen == 52

Contents ==
    { <<>>,
      <<Entry(1, 1)>>,
      <<Entry(201, 9), Entry(1, 1), Entry(2, 2)>>,
      <<Entry(201, 9), Entry(202, 202)>>,
      <<Entry(203, 203), Entry(203, 203)>>,
      <<Entry(0, 0), Entry(0, 204)>>,
      <<Entry(0, 0)>>,
      Guids(1, BulkLen),
      <<Entry(205, 205)>> \o Guids(1, BulkLen),
      <<Entry(205, 205), Entry(0, 206)>> \o Guids(1, BulkLen),
      <<Entry(205, 205), Entry(HashesFloor, HashesFloor)>> }

\* the caching headers of a response: ETag and Last-Modified
NoHeaders == [etag |-> 0, last_modified |-> 0]
Headers == {[etag |-> 1, last_modified |-> 1], [etag |-> 0, last_modified |-> 2]}

\* no fetch was issued
NoFetch ==
    [status |-> 0, rss_d |-> FALSE, entries |-> <<>>, url_changed |-> FALSE,
     headers |-> NoHeaders]

\* a source that serves nothing: every fetch of it fails
Unreachable == {}

\* feed_get returned an error: rss_d is None and the status is not 304
FetchError ==
    [status |-> 500, rss_d |-> FALSE, entries |-> <<>>, url_changed |-> FALSE,
     headers |-> NoHeaders]

\* what feed_get can return: an error (rss_d is None) or, from a source that can be
\* reached, not modified or a parsed feed, reached at the stored address (with an
\* ETag) or at another one (with a Last-Modified only)
FetchResults(contents) ==
    IF contents = Unreachable THEN {FetchError}
    ELSE { [status |-> NotModified, rss_d |-> FALSE, entries |-> <<>>,
            url_changed |-> FALSE, headers |-> NoHeaders],
           FetchError }
         \cup { [status |-> 200, rss_d |-> TRUE, entries |-> c, url_changed |-> h.etag = 0,
                  headers |-> h] : c \in contents, h \in Headers }

(* ------------------------------------------------------------------ *)
(* __monitor from the return of feed_get to its first await on others  *)
(* ------------------------------------------------------------------ *)
\* feed.save(): the row becomes the object
save(c) == [c EXCEPT !.db = c.feed, !.saves = @ + 1]

\* lines 126-129
on_recovery(c, r) ==
    IF recovers(c.feed, r) THEN save([c EXCEPT !.feed = recovered(@)]) ELSE c

\* lines 135-149
on_error(c, t) ==
    IF too_many_errors(c.feed)
    THEN [c EXCEPT !.goto = "deactivate"]
    ELSE [save([c EXCEPT !.feed = fetch_failed(@, t)]) EXCEPT !.goto = FAILED]

\* lines 151-155
on_empty(c, r) == [c EXCEPT !.migrated = r.url_changed, !.goto = EMPTY]

\* lines 157-186, saving the caching headers of a feed without new entries too
on_entries_always_saved(c, r) ==
    LET old_hashes == c.feed.entry_hashes
        updated_hashes == updated_hashes_of(r.entries, old_hashes)
        new_hashes == new_hashes_of(updated_hashes, old_hashes, Len(r.entries))
        c1 == save([c EXCEPT !.feed = [@ EXCEPT !.entry_hashes = new_hashes,
                                                !.etag = r.headers.etag,
                                                !.last_modified = r.headers.last_modified]])
    IN  IF updated_hashes = <<>>
        THEN [c1 EXCEPT !.goto = NOT_UPDATED]
        ELSE [c1 EXCEPT !.goto = "notify",
                        !.entries = updated_entries_of(r.entries, old_hashes),
                        !.migrated = r.url_changed]

\* lines 157-186; entry_hashes holds the list that loads() reads and dumps() writes
on_entries(c, r) ==
    LET old_hashes == c.feed.entry_hashes
        updated_hashes == updated_hashes_of(r.entries, old_hashes)
        new_hashes == new_hashes_of(updated_hashes, old_hashes, Len(r.entries))
    IN  IF updated_hashes = <<>>
        THEN [c EXCEPT !.goto = NOT_UPDATED]
        ELSE [save([c EXCEPT !.feed = [@ EXCEPT !.entry_hashes = new_hashes,
                                                !.etag = r.headers.etag,
                                                !.last_modified = r.headers.last_modified]])
                EXCEPT !.goto = "notify",
                       !.entries = updated_entries_of(r.entries, old_hashes),
                       !.migrated = r.url_changed]

\* lines 124-186: the feed object fd, loaded when its row was `row`, after feed_get
\* returned r to the poll that started at time t
monitor_fetch_result(fd, row, r, t) ==
    LET c0 == [feed |-> fd, db |-> row, saves |-> 0, goto |-> "none",
               entries |-> <<>>, migrated |-> FALSE]
        c1 == on_recovery(c0, r)
    IN  IF r.status = NotModified THEN [c1 EXCEPT !.goto = CACHED]
        ELSE IF ~r.rss_d THEN on_error(c1, t)
        ELSE IF r.entries = <<>> THEN on_empty(c1, r)
        ELSE on_entries(c1, r)

\* db.Sub.filter(feed=feed, state=1), lines 194 and 223
active_subs(f) == {u \in Users : sub_state[f][u] = 1}

(* ------------------------------------------------------------------ *)
(* Initial states                                                      *)
(* ------------------------------------------------------------------ *)
\* the intervals a feed may have (0: none set, the default applies)
Intervals == {0, 5, 80}

\* a Feed row after error_count consecutive failed fetches, the last one at or
\* before time 0, with the first n guids seen
StartFeed(error_count, interval, n, state) ==
    LET fd == [error_count |-> 0, next_check_time |-> None, interval |-> interval,
               entry_hashes |-> Hashes(n), etag |-> 0, last_modified |-> 0,
               state |-> state]
    IN  IF error_count = 0 THEN fd
        ELSE [fetch_failed([fd EXCEPT !.error_count = error_count - 1], 0)
                EXCEPT !.next_check_time = IF @ = None THEN None ELSE 0]

\* MonitoringLogs.log has not been called: a call counts at least one feed
NoLog ==
    [not_updated |-> 0, cached |-> 0, empty |-> 0, failed |-> 0, updated |-> 0,
     skipped |-> 0]

\* the same row when the last of the failed fetches was at time 0 and the delay it
\* set is still running
DelayedFeed(error_count, interval, n, state) ==
    LET fd == [error_count |-> error_count - 1, next_check_time |-> None,
               interval |-> interval, entry_hashes |-> Hashes(n), etag |-> 0,
               last_modified |-> 0, state |-> state]
    IN  fetch_failed(fd, 0)

NoPrev ==
    [polled |-> FALSE, status |-> 0, entries |-> <<>>, reflected |-> FALSE,
     unchanged |-> TRUE, result |-> "none", notified |-> 0]

InitWith(t, feed_rows, sub_rows, sources) ==
    /\ now = t
    /\ cycle_pc = "due"
    /\ tasks = {}
    /\ last_log = NoLog
    /\ db_feed \in feed_rows
    /\ sub_state \in sub_rows
    /\ feed = db_feed
    /\ pc = [f \in Feeds |-> "idle"]
    /\ d = [f \in Feeds |-> NoFetch]
    /\ result = [f \in Feeds |-> "none"]
    /\ saves = [f \in Feeds |-> 0]
    /\ migrated = [f \in Feeds |-> FALSE]
    /\ updated_entries = [f \in Feeds |-> <<>>]
    /\ subs = [f \in Feeds |-> {}]
    /\ notify_pc = [f \in Feeds |-> NoNotify]
    /\ notify_subs = [f \in Feeds |-> NoNotifySubs]
    /\ send_pc = [f \in Feeds |-> NoSends]
    /\ lock = [u \in Users |-> FALSE]
    /\ prev = [f \in Feeds |-> NoPrev]
    /\ remote = sources

\* one feed in every state of its record, with at most one subscriber; the other
\* feed is inactive and is never polled
StartErrors == {0, 3, 9, 99, 100}
StartLens == {0, 2, 100, 120}
Init ==
    InitWith(0,
             {[f \in Feeds |-> IF f = 1 THEN StartFeed(e, i, n, 1)
                               ELSE StartFeed(0, 5, 0, 0)] :
                  e \in StartErrors, i \in Intervals, n \in StartLens},
             {[f \in Feeds |-> [u \in Users |-> IF f = 1 /\ u = 1 THEN 1 ELSE 0]]},
             [f \in Feeds |-> Contents])

\* the last cycle, over two active feeds that are either at the deactivation
\* threshold or without errors: both users subscribed to the first feed, or one
\* user subscribed to both feeds.  The first feed has seen guid 1 and serves two
\* new entries, or a new one before the one it has seen; the second serves one
\* new entry, no entry, or an entry without identifier, and its check may still
\* be delayed
FanoutContents ==
    [f \in Feeds |-> IF f = 1 THEN {<<Entry(201, 9), Entry(202, 202)>>,
                                    <<Entry(201, 9), Entry(1, 1)>>}
                     ELSE {<<Entry(1, 1)>>, <<>>, <<Entry(0, 0)>>}]
InitFanout ==
    InitWith(MaxTime,
             {[f \in Feeds |-> IF f = 1 THEN StartFeed(e1, 5, 1, 1) ELSE r2] :
                  e1 \in {0, 100},
                  r2 \in {StartFeed(0, 5, 0, 1), StartFeed(100, 5, 0, 1),
                          DelayedFeed(100, 5, 0, 1)}},
             {[f \in Feeds |-> [u \in Users |-> IF f = 1 THEN 1 ELSE 0]],
              [f \in Feeds |-> [u \in Users |-> IF u = 1 THEN 1 ELSE 0]]},
             FanoutContents)

\* one feed whose source is unreachable from the start, with no subscriber, one
\* or two; the other feed is inactive
LiveErrors == {0, 95}
InitLive ==
    InitWith(0,
             {[f \in Feeds |-> IF f = 1 THEN StartFeed(e, i, 0, 1)
                               ELSE StartFeed(0, 5, 0, 0)] :
                  e \in LiveErrors, i \in Intervals},
             {[f \in Feeds |-> [u \in Users |-> IF f = 1 /\ u \in S THEN 1 ELSE 0]] :
                  S \in {{}, {1}, {1, 2}}},
             [f \in Feeds |-> Unreachable])

(* ------------------------------------------------------------------ *)
(* run_monitor_task                                                    *)
(* ------------------------------------------------------------------ *)
\* every coroutine of the last cycle has returned or raised
Quiescent ==
    /\ \A f \in Feeds : pc[f] \in {"idle", "done", "raised"}
    /\ \A f \in Feeds, k \in 1..MaxNew : notify_pc[f][k] \in {"none", "sending"}
    /\ \A f \in Feeds, k \in Slots, u \in Users : send_pc[f][k][u] \in SendOver

\* the entries of a parsed feed that have an identifier are all in the hashes
reflected_in(entries, hashes) ==
    \A i \in 1..Len(entries) :
        entry_guid(entries[i]) # 0 => get_hash(entry_guid(entries[i])) \in Range(hashes)

\* what is kept of a finished poll when the feed is polled again: what was fetched,
\* whether the stored hashes already held it, whether they were left as they were,
\* the outcome and the number of entries notified
poll_summary(f) ==
    [polled |-> TRUE, status |-> d[f].status, entries |-> d[f].entries,
     reflected |-> d[f].rss_d /\ reflected_in(d[f].entries, feed[f].entry_hashes),
     unchanged |-> db_feed[f].entry_hashes = feed[f].entry_hashes,
     result |-> result[f], notified |-> Len(updated_entries[f])]

\* lines 70-78: the timer has fired; the feeds to monitor are loaded and their
\* polls are started
run_monitor_task_start ==
    /\ cycle_pc = "due"
    /\ \E T \in (SUBSET {f \in Feeds : db_feed[f].state = 1}) \ {{}} :
        /\ tasks' = T
        /\ feed' = [f \in Feeds |-> IF f \in T THEN db_feed[f] ELSE feed[f]]
        /\ pc' = [f \in Feeds |-> IF f \in T THEN "start" ELSE pc[f]]
        /\ prev' = [f \in Feeds |->
                      IF f \in T /\ pc[f] # "idle" THEN poll_summary(f) ELSE prev[f]]
        /\ d' = [f \in Feeds |-> IF f \in T THEN NoFetch ELSE d[f]]
        /\ result' = [f \in Feeds |-> IF f \in T THEN "none" ELSE result[f]]
        /\ saves' = [f \in Feeds |-> IF f \in T THEN 0 ELSE saves[f]]
        /\ migrated' = [f \in Feeds |-> IF f \in T THEN FALSE ELSE migrated[f]]
        /\ updated_entries' = [f \in Feeds |-> IF f \in T THEN <<>> ELSE updated_entries[f]]
        /\ subs' = [f \in Feeds |-> IF f \in T THEN {} ELSE subs[f]]
        /\ notify_pc' = [f \in Feeds |-> IF f \in T THEN NoNotify ELSE notify_pc[f]]
        /\ notify_subs' = [f \in Feeds |-> IF f \in T THEN NoNotifySubs ELSE notify_subs[f]]
        /\ send_pc' = [f \in Feeds |-> IF f \in T THEN NoSends ELSE send_pc[f]]
    /\ cycle_pc' = "running"
    /\ UNCHANGED <<now, last_log, db_feed, sub_state, lock, remote>>

Count(T, S) == Cardinality({f \in T : result[f] \in S})

\* lines 80-101 with cached and empty counted apart from not_updated
tally_exclusive(T) ==
    [not_updated |-> Count(T, {NOT_UPDATED}),
     cached |-> Count(T, {CACHED}),
     empty |-> Count(T, {EMPTY}),
     failed |-> Count(T, {FAILED}),
     updated |-> Count(T, {UPDATED}),
     skipped |-> Count(T, {SKIPPED})]

\* lines 80-101
tally(T) ==
    [not_updated |-> Count(T, {NOT_UPDATED, CACHED, EMPTY}),
     cached |-> Count(T, {CACHED}),
     empty |-> Count(T, {EMPTY}),
     failed |-> Count(T, {FAILED}),
     updated |-> Count(T, {UPDATED}),
     skipped |-> Count(T, {SKIPPED})]

\* lines 78-103: every poll has returned, the outcomes are tallied and logged
run_monitor_task_done ==
    /\ cycle_pc = "running"
    /\ \A f \in tasks : pc[f] = "done"
    /\ last_log' = tally(tasks)
    /\ cycle_pc' = "returned"
    /\ UNCHANGED <<now, tasks, db_feed, sub_state, feed, pc, d, result, saves,
                   migrated, updated_entries, subs, notify_pc, notify_subs, send_pc,
                   lock, prev, remote>>

\* the timer fires again, once every coroutine of the last cycle is over; within
\* a cycle the clock is read at line 113 only, when the polls start
timer(horizon) ==
    /\ cycle_pc \in {"returned", "raised"}
    /\ Quiescent
    /\ now <= horizon
    /\ now' = now + TickStep
    /\ cycle_pc' = IF now' <= horizon THEN "due" ELSE "stopped"
    /\ UNCHANGED <<tasks, last_log, db_feed, sub_state, feed, pc, d,
                   result, saves, migrated, updated_entries, subs, notify_pc, notify_subs,
                   send_pc, lock, prev, remote>>

Tick == timer(MaxTime)

\* the timer of the runs that follow a feed through all its failed polls
TickLive == timer(MaxTimeLive)

(* ------------------------------------------------------------------ *)
(* __monitor                                                           *)
(* ------------------------------------------------------------------ *)
\* lines 113-123: the due check, then the fetch is issued
monitor_start(f) ==
    /\ pc[f] = "start"
    /\ IF not_due(feed[f], now)
       THEN /\ pc' = [pc EXCEPT ![f] = "done"]
            /\ result' = [result EXCEPT ![f] = SKIPPED]
       ELSE /\ pc' = [pc EXCEPT ![f] = "fetching"]
            /\ UNCHANGED result
    /\ UNCHANGED <<now, cycle_pc, tasks, last_log, db_feed, sub_state, feed, d,
                   saves, migrated, updated_entries, subs, notify_pc, notify_subs,
                   send_pc, lock, prev, remote>>

\* lines 124-188 and 223: feed_get returns r
monitor_fetched(f) ==
    /\ pc[f] = "fetching"
    /\ \E r \in FetchResults(remote[f]) :
        LET c == monitor_fetch_result(feed[f], db_feed[f], r, now)
        IN  /\ Len(c.entries) <= MaxNew
            /\ d' = [d EXCEPT ![f] = r]
            /\ db_feed' = [db_feed EXCEPT ![f] = c.db]
            /\ saves' = [saves EXCEPT ![f] = c.saves]
            /\ migrated' = [migrated EXCEPT ![f] = c.migrated]
            /\ updated_entries' = [updated_entries EXCEPT ![f] = c.entries]
            /\ CASE c.goto = "deactivate" ->
                      /\ pc' = [pc EXCEPT ![f] = "deactivating"]
                      /\ subs' = [subs EXCEPT ![f] = active_subs(f)]
                      /\ UNCHANGED <<result, notify_pc>>
                 [] c.goto = "notify" ->
                      /\ pc' = [pc EXCEPT ![f] = "notifying"]
                      /\ notify_pc' = [notify_pc EXCEPT ![f] =
                             [k \in 1..MaxNew |->
                                 IF k <= Len(c.entries) THEN "load" ELSE "none"]]
                      /\ UNCHANGED <<result, subs>>
                 [] OTHER ->
                      /\ pc' = [pc EXCEPT ![f] = "done"]
                      /\ result' = [result EXCEPT ![f] = c.goto]
                      /\ UNCHANGED <<subs, notify_pc>>
    /\ UNCHANGED <<now, cycle_pc, tasks, last_log, sub_state, feed, notify_subs,
                   send_pc, lock, prev, remote>>

(* ------------------------------------------------------------------ *)
(* __deactivate_feed_and_notify_all                                    *)
(* ------------------------------------------------------------------ *)
\* inner.utils.deactivate_feed: the feed is no longer active
deactivate_feed(row) == [row EXCEPT !.state = 0]

\* lines 199-201 and 229-238 with one __send per user, subscribed or not
notices_for_everyone(S) == [u \in Users |-> "sending"]

\* lines 229-238: one __send per subscriber read at line 223
notices_for(S) == [u \in Users |-> IF u \in S THEN "sending" ELSE "none"]

\* lines 224-238: deactivate_feed returns; the notices are sent to the
\* subscribers read before it
deactivate_feed_and_notify_all(f) ==
    /\ pc[f] = "deactivating"
    /\ db_feed' = [db_feed EXCEPT ![f] = deactivate_feed(@)]
    /\ IF subs[f] = {}
       THEN /\ pc' = [pc EXCEPT ![f] = "done"]
            /\ result' = [result EXCEPT ![f] = FAILED]
            /\ UNCHANGED send_pc
       ELSE /\ pc' = [pc EXCEPT ![f] = "noticing"]
            /\ send_pc' = [send_pc EXCEPT ![f][0] = notices_for(subs[f])]
            /\ UNCHANGED result
    /\ UNCHANGED <<now, cycle_pc, tasks, last_log, sub_state, feed, d, saves,
                   migrated, updated_entries, subs, notify_pc, notify_subs, lock, prev, remote>>

(* ------------------------------------------------------------------ *)
(* __notify_all                                                        *)
(* ------------------------------------------------------------------ *)
\* lines 194-196: the active subscribers are read; with none, update_interval
\* (inner.utils) is awaited, whose effect on the feed is not part of this module
notify_all_load(f, k) ==
    /\ notify_pc[f][k] = "load"
    /\ notify_subs' = [notify_subs EXCEPT ![f][k] = active_subs(f)]
    /\ notify_pc' = [notify_pc EXCEPT ![f][k] = "generate"]
    /\ UNCHANGED <<now, cycle_pc, tasks, last_log, db_feed, sub_state, feed, pc, d, result,
                   saves, migrated, updated_entries, subs, send_pc, lock, prev, remote>>

\* lines 197-201: the message is generated and one __send per subscriber starts
notify_all_send(f, k) ==
    /\ notify_pc[f][k] = "generate"
    /\ notify_pc' = [notify_pc EXCEPT ![f][k] = "sending"]
    /\ send_pc' = [send_pc EXCEPT ![f][k] = notices_for(notify_subs[f][k])]
    /\ UNCHANGED <<now, cycle_pc, tasks, last_log, db_feed, sub_state, feed, pc, d,
                   result, saves, migrated, updated_entries, subs, notify_subs, lock, prev, remote>>

(* ------------------------------------------------------------------ *)
(* The gathers, lines 78, 138, 188, 199 and 229                        *)
(* ------------------------------------------------------------------ *)
\* the __send slots the poll awaits: the notices, or the __notify_all of each
\* updated entry
awaited_slots(f) ==
    IF pc[f] = "noticing" THEN {0}
    ELSE IF pc[f] = "notifying" THEN 1..Len(updated_entries[f])
    ELSE {}

\* an exception leaves the __send of slot k of feed f: the gather that holds it
\* raises at once, and so do the __notify_all and the poll that await it (nothing
\* in them catches it), if the poll has not raised yet
poll_raise(f, k) == [pc EXCEPT ![f] = IF k \in awaited_slots(f) THEN "raised" ELSE @]

\* ... and so does the gather of line 78 and with it run_monitor_task, if it has
\* not raised yet: nothing is tallied, and the other coroutines go on unawaited
run_monitor_task_raise(f, k) ==
    IF cycle_pc = "running" /\ k \in awaited_slots(f) THEN "raised" ELSE cycle_pc

\* every coroutine the poll gathered has returned
gather_returned(f) ==
    /\ \A k \in awaited_slots(f) \ {0} : notify_pc[f][k] = "sending"
    /\ \A k \in awaited_slots(f), u \in Users : send_pc[f][k][u] \in SendOver \ SendRaised

\* lines 139 and 190: the gather returns and so does the poll
monitor_done(f) ==
    /\ pc[f] \in {"noticing", "notifying"}
    /\ gather_returned(f)
    /\ pc' = [pc EXCEPT ![f] = "done"]
    /\ result' = [result EXCEPT ![f] = IF pc[f] = "noticing" THEN FAILED ELSE UPDATED]
    /\ UNCHANGED <<now, cycle_pc, tasks, last_log, db_feed, sub_state, feed, d,
                   saves, migrated, updated_entries, subs, notify_pc, notify_subs,
                   send_pc, lock, prev, remote>>

(* ------------------------------------------------------------------ *)
(* __send                                                              *)
(* ------------------------------------------------------------------ *)
send_frame ==
    UNCHANGED <<now, tasks, last_log, db_feed, feed, d, result, saves, migrated,
                updated_entries, subs, notify_pc, notify_subs, prev, remote>>

\* lines 208-211: the message is delivered
send_delivered(f, k, u) ==
    /\ send_pc[f][k][u] = "sending"
    /\ send_pc' = [send_pc EXCEPT ![f][k][u] = "sent"]
    /\ UNCHANGED <<sub_state, lock, pc, cycle_pc>>
    /\ send_frame

\* lines 207-212: the delivery raises an error that is not one of the three caught
send_failed(f, k, u) ==
    /\ send_pc[f][k][u] = "sending"
    /\ send_pc' = [send_pc EXCEPT ![f][k][u] = "raised"]
    /\ pc' = poll_raise(f, k)
    /\ cycle_pc' = run_monitor_task_raise(f, k)
    /\ UNCHANGED <<sub_state, lock>>
    /\ send_frame

\* lines 213-216 without the test of line 214
on_blocked_unchecked(locked) == "unsub"

\* lines 213-216: what a __send does on UserIsBlockedError, UserIdInvalidError or
\* ChatWriteForbiddenError, given whether the user's lock is held: it returns
\* ("dropped"), or takes the lock and calls unsub_all ("unsub")
on_blocked(locked) == IF locked THEN "dropped" ELSE "unsub"

\* lines 212-219: the delivery raises one of the three permanent failures
send_blocked(f, k, u) ==
    /\ send_pc[f][k][u] = "sending"
    /\ send_pc' = [send_pc EXCEPT ![f][k][u] = on_blocked(lock[u])]
    /\ lock' = [lock EXCEPT ![u] = @ \/ on_blocked(@) = "unsub"]
    /\ UNCHANGED <<sub_state, pc, cycle_pc>>
    /\ send_frame

\* inner.sub.unsub_all: the user has no active subscription left
unsub_all(rows, u) == [f \in Feeds |-> [rows[f] EXCEPT ![u] = 0]]

\* lines 216-219: unsub_all returns and the lock is released
unsub_all_done(f, k, u) ==
    /\ send_pc[f][k][u] = "unsub"
    /\ send_pc' = [send_pc EXCEPT ![f][k][u] = "unsubbed"]
    /\ sub_state' = unsub_all(sub_state, u)
    /\ lock' = [lock EXCEPT ![u] = FALSE]
    /\ UNCHANGED <<pc, cycle_pc>>
    /\ send_frame

\* lines 216-219: unsub_all raises; leaving the `async with` releases the lock
unsub_all_failed(f, k, u) ==
    /\ send_pc[f][k][u] = "unsub"
    /\ send_pc' = [send_pc EXCEPT ![f][k][u] = "unsub_raised"]
    /\ lock' = [lock EXCEPT ![u] = FALSE]
    /\ pc' = poll_raise(f, k)
    /\ cycle_pc' = run_monitor_task_raise(f, k)
    /\ UNCHANGED sub_state
    /\ send_frame

(* ------------------------------------------------------------------ *)
(* Specifications                                                      *)
(* ------------------------------------------------------------------ *)
Next ==
    \/ run_monitor_task_start
    \/ run_monitor_task_done
    \/ Tick
    \/ \E f \in Feeds : monitor_start(f)
    \/ \E f \in Feeds : monitor_fetched(f)
    \/ \E f \in Feeds : deactivate_feed_and_notify_all(f)
    \/ \E f \in Feeds, k \in 1..MaxNew : notify_all_load(f, k)
    \/ \E f \in Feeds, k \in 1..MaxNew : notify_all_send(f, k)
    \/ \E f \in Feeds, k \in Slots, u \in Users : send_delivered(f, k, u)
    \/ \E f \in Feeds, k \in Slots, u \in Users : send_failed(f, k, u)
    \/ \E f \in Feeds, k \in Slots, u \in Users : send_blocked(f, k, u)
    \/ \E f \in Feeds, k \in Slots, u \in Users : unsub_all_done(f, k, u)
    \/ \E f \in Feeds, k \in Slots, u \in Users : unsub_all_failed(f, k, u)
    \/ \E f \in Feeds : monitor_done(f)

Spec == Init /\ [][Next]_vars

SpecFanout == InitFanout /\ [][Next]_vars

\* a feed whose source stays unreachable: no poll of it finds entries, so that no
\* __notify_all is started
NextLive ==
    \/ run_monitor_task_start
    \/ run_monitor_task_done
    \/ TickLive
    \/ \E f \in Feeds : monitor_start(f)
    \/ \E f \in Feeds : monitor_fetched(f)
    \/ \E f \in Feeds : deactivate_feed_and_notify_all(f)
    \/ \E f \in Feeds, u \in Users : send_delivered(f, 0, u)
    \/ \E f \in Feeds, u \in Users : send_failed(f, 0, u)
    \/ \E f \in Feeds, u \in Users : send_blocked(f, 0, u)
    \/ \E f \in Feeds, u \in Users : unsub_all_done(f, 0, u)
    \/ \E f \in Feeds, u \in Users : unsub_all_failed(f, 0, u)
    \/ \E f \in Feeds : monitor_done(f)

\* the timer keeps firing and the event loop keeps running the coroutines that
\* can go on: a step that stays possible is taken
SpecLive == InitLive /\ [][NextLive]_vars /\ WF_vars(NextLive)

(* ------------------------------------------------------------------ *)
(* Properties                                                          *)
(* ------------------------------------------------------------------ *)
\* feed_get has returned to the poll of f
fetched(f) == d[f].status # 0
\* ... an error: rss_d is None and the status is not 304
fetch_error(f) == fetched(f) /\ ~d[f].rss_d /\ d[f].status # NotModified
\* the poll of f has returned or raised
poll_over(f) == pc[f] \in {"done", "raised"}
\* the timer has not fired since the polls started: now is still the time they read
clock_unmoved == cycle_pc \in {"running", "returned", "raised"}

\* the __send coroutines for user u whose delivery ended in a permanent failure
permanent_failures(u) ==
    {fk \in Feeds \X Slots : send_pc[fk[1]][fk[2]][u] \in SendPermanent}
\* the __send coroutines for user u that called unsub_all
unsub_all_calls(u) ==
    {fk \in Feeds \X Slots : send_pc[fk[1]][fk[2]][u] \in SendUnsub}

\* C1: whatever number of concurrent __send calls to one user end in a permanent
\* delivery failure, and however their failures and unsub_all interleave,
\* unsub_all is executed exactly once for that user.
C1_SingleUnsubscribe ==
    \A u \in Users :
        permanent_failures(u) # {} => Cardinality(unsub_all_calls(u)) = 1

\* C2: a failed fetch increments error_count first, and a poll whose incremented
\* error_count is >= 100 runs the deactivation flow itself: the feed is
\* deactivated in the poll that reaches 100.
C2_DeactivatedWhenReaching100 ==
    \A f \in Feeds :
        (poll_over(f) /\ fetch_error(f) /\ feed[f].error_count + 1 >= 100)
            => db_feed[f].state = 0

\* the poll of f has failed to fetch a feed of interval 5 that had 9 errors
C3_Case(f) ==
    /\ poll_over(f) /\ fetch_error(f) /\ clock_unmoved
    /\ feed[f].error_count = 9
    /\ interval_of(feed[f]) = 5

\* C3 as stated: a fetch failure moving error_count from 9 to 10 at interval 5
\* computes a delay of 5 minutes, not greater than the interval, so that
\* next_check_time stays unset, and the outcome is failed.
C3_NoDelayAt10_Original ==
    \A f \in Feeds :
        C3_Case(f) =>
            /\ next_check_interval(5, db_feed[f].error_count) = 5
            /\ db_feed[f].next_check_time = None
            /\ result[f] = FAILED

\* C3 as amended: a fetch failure moving error_count from 9 to 10 at interval 5
\* computes a delay of min(5, 15) * (10 // 10 + 1) = 10 minutes, greater than the
\* interval, so that next_check_time is set 10 minutes after the poll's start,
\* and the outcome is failed.
C3_DelayAt10 ==
    \A f \in Feeds :
        C3_Case(f) =>
            /\ db_feed[f].error_count = 10
            /\ db_feed[f].next_check_time = now + 10
            /\ saves[f] = 1
            /\ result[f] = FAILED

C3_Witness == \E f \in Feeds : C3_Case(f) /\ db_feed[f].next_check_time = now + 10

\* C4 as stated: every poll, whatever its path, calls feed.save() at most once.
C4_AtMostOneSave_Original == \A f \in Feeds : saves[f] <= 1

\* C4 as amended: every poll calls feed.save() at most twice, and twice only when
\* it first recovers from prior errors or a deferred check (line 129) and then
\* finds new entries (line 182); on every other path it calls it at most once.
C4_AtMostTwoSaves ==
    \A f \in Feeds :
        /\ saves[f] <= 2
        /\ saves[f] = 2 => (recovers(feed[f], d[f]) /\ updated_entries[f] # <<>>)
        /\ (poll_over(f) /\ result[f] \in {SKIPPED, NOT_UPDATED, CACHED, EMPTY})
               => saves[f] = IF fetched(f) /\ recovers(feed[f], d[f]) THEN 1 ELSE 0
        /\ (poll_over(f) /\ result[f] = FAILED)
               => saves[f] = IF feed[f].error_count >= ErrorLimit THEN 0 ELSE 1

C4_Witness ==
    \E f \in Feeds : result[f] = UPDATED /\ saves[f] = 2 /\ feed[f].error_count > 0

\* no exception has left a poll or the cycle
no_escape == cycle_pc # "raised" /\ \A f \in Feeds : pc[f] # "raised"

\* C5: no failure raised inside a poll escapes it: every poll started in a cycle
\* yields one of the six outcomes, a poll in which something failed yields
\* failed, and the outcomes of all polls of the cycle are tallied.
C5_NoFailureEscapes ==
    /\ no_escape
    /\ \A f \in tasks :
           (poll_over(f) /\ \E k \in Slots, u \in Users : send_pc[f][k][u] \in SendRaised)
               => result[f] = FAILED
    /\ (cycle_pc \in {"returned", "raised"} /\ Quiescent)
           => /\ \A f \in tasks : result[f] \in Outcomes
              /\ last_log = tally(tasks)

\* the poll of f has got a not-modified response or a parsed feed while the feed
\* object had errors or a deferred check
C6_Case(f) ==
    /\ fetched(f)
    /\ d[f].rss_d \/ d[f].status = 304
    /\ feed[f].error_count > 0 \/ feed[f].next_check_time # None

\* C6: a not-modified response or a parsed feed, on a feed whose error_count > 0
\* or whose next_check_time is set, makes the poll set error_count to 0, clear
\* next_check_time and save; a not-modified response gives the outcome cached.
C6_Recovery ==
    \A f \in Feeds :
        C6_Case(f) =>
            /\ db_feed[f].error_count = 0
            /\ db_feed[f].next_check_time = None
            /\ saves[f] >= 1
            /\ d[f].status = 304 => (pc[f] = "done" /\ result[f] = CACHED)

C6_Witness ==
    \E f \in Feeds :
        C6_Case(f) /\ d[f].status = 304 /\ feed[f].error_count = 3 /\ result[f] = CACHED

\* the last two polls of f both got a not-modified response or the same parsed
\* feed, whose entries the stored hashes held before the first of them
C7_Case(f) ==
    /\ prev[f].polled
    /\ prev[f].status \in {200, 304}
    /\ d[f].status \in {200, 304}
    /\ (prev[f].status = 200 /\ d[f].status = 200) => prev[f].entries = d[f].entries
    /\ prev[f].status = 200 => prev[f].reflected
    /\ (prev[f].status = 304 /\ d[f].status = 200)
           => reflected_in(d[f].entries, feed[f].entry_hashes)

\* both polls ended with an outcome of S, notified nothing and left the hashes
C7_Unchanged(f, S) ==
    /\ prev[f].result \in S
    /\ prev[f].notified = 0
    /\ prev[f].unchanged
    /\ pc[f] = "done"
    /\ result[f] \in S
    /\ updated_entries[f] = <<>>
    /\ \A k \in Slots, u \in Users : send_pc[f][k][u] = "none"
    /\ db_feed[f].entry_hashes = feed[f].entry_hashes

\* C7 as stated: two polls in a row that fetch the same content, already reflected
\* by the stored state, both end cached or not_updated, notify nothing and leave
\* the stored hashes unchanged.
C7_Idempotent_Original ==
    \A f \in Feeds : C7_Case(f) => C7_Unchanged(f, {CACHED, NOT_UPDATED})

\* C7 as amended: two polls in a row whose fetches return not-modified or the same
\* content, already reflected by the stored state, both end cached, not_updated
\* or empty (empty exactly when a parsed feed without entries was fetched),
\* notify nothing and leave the stored hashes unchanged.
C7_Idempotent ==
    \A f \in Feeds :
        C7_Case(f) =>
            /\ C7_Unchanged(f, {CACHED, NOT_UPDATED, EMPTY})
            /\ result[f] = EMPTY <=> (d[f].status = 200 /\ d[f].entries = <<>>)
            /\ prev[f].result = EMPTY <=> (prev[f].status = 200 /\ prev[f].entries = <<>>)

C7_Witness ==
    \E f \in Feeds :
        /\ C7_Case(f)
        /\ prev[f].status = 200 /\ d[f].status = 200
        /\ Len(d[f].entries) > 1
        /\ prev[f].result = NOT_UPDATED /\ result[f] = NOT_UPDATED

\* C8: in every reachable state next_check_time is set only if error_count >= 10
\* and the delay min(interval, 15) * min(error_count // 10 + 1, 5) computed for
\* that error_count exceeds the interval of the feed.
C8_NextCheckOnlyWhenDelayed ==
    \A f \in Feeds :
        db_feed[f].next_check_time # None =>
            /\ db_feed[f].error_count >= 10
            /\ Min(interval_of(db_feed[f]), 15) * Min(db_feed[f].error_count \div 10 + 1, 5)
                   > interval_of(db_feed[f])

C8_Witness ==
    \E f \in Feeds :
        /\ poll_over(f) /\ fetch_error(f) /\ clock_unmoved
        /\ feed[f].next_check_time = None
        /\ db_feed[f].next_check_time = now + 20
        /\ db_feed[f].interval = 0

\* the poll of f has found new entries and has saved the new hashes
updated_path(f) == pc[f] = "notifying" \/ result[f] = UPDATED

\* C9: after a poll with outcome updated the stored hashes are at most
\* max(2 * number of fetched entries, 100), whatever their number before and
\* whatever the number of new entries.
C9_BoundedHistory ==
    \A f \in Feeds :
        updated_path(f) =>
            Len(db_feed[f].entry_hashes) <= Max(2 * Len(d[f].entries), 100)

C9_Witness ==
    \E f \in Feeds :
        /\ result[f] = UPDATED
        /\ Len(feed[f].entry_hashes) = 120
        /\ Len(d[f].entries) > 50
        /\ Len(updated_entries[f]) = 2
        /\ Len(db_feed[f].entry_hashes) = 2 * Len(d[f].entries)

\* the deactivation flow has run for f, and its poll has returned or raised
C10_Case(f) == poll_over(f) /\ fetch_error(f) /\ feed[f].error_count >= ErrorLimit

\* C10: when the deactivation flow runs the feed is deactivated, each subscription
\* active when the flow read them gets exactly one notice through __send, no
\* notice is sent when there is none, and the outcome of the poll is failed.
C10_DeactivationNotifiesAll ==
    \A f \in Feeds :
        C10_Case(f) =>
            /\ db_feed[f].state = 0
            /\ \A u \in Users : send_pc[f][0][u] # "none" <=> u \in subs[f]
            /\ \A k \in 1..MaxNew, u \in Users : send_pc[f][k][u] = "none"
            /\ result[f] = FAILED

\* the fingerprint an entry has: of its guid, else of its link, else none
fingerprint_of(e) ==
    IF e.guid # 0 THEN 1000 + e.guid
    ELSE IF e.link # 0 THEN 1000 + e.link
    ELSE None

\* the places in the fetched feed of the entries with a fingerprint that the
\* history loaded by the poll does not hold
new_indices(f) ==
    {i \in 1..Len(d[f].entries) :
        /\ fingerprint_of(d[f].entries[i]) # None
        /\ \A j \in 1..Len(feed[f].entry_hashes) :
               feed[f].entry_hashes[j] # fingerprint_of(d[f].entries[i])}

\* the j-th smallest member of the set of numbers N
nth(N, j) == CHOOSE i \in N : Cardinality({m \in N : m <= i}) = j

\* the poll of f has fetched a parsed feed with entries
C11_Case(f) == fetched(f) /\ d[f].rss_d /\ d[f].entries # <<>>

\* C11: the diff marks an entry as new if and only if it has a fingerprint (of its
\* guid, else of its link) that the stored history does not hold; the new entries
\* and the new fingerprints come in the order of the feed; with an empty history
\* every entry with a fingerprint is new; an entry with neither guid nor link is
\* skipped; the outcome is not_updated exactly when no entry is new.
C11_FingerprintDiff ==
    \A f \in Feeds :
        C11_Case(f) =>
            LET N == new_indices(f)
                ue == updated_entries[f]
            IN  /\ Len(ue) = Cardinality(N)
                /\ \A j \in 1..Len(ue) :
                       /\ ue[j] = d[f].entries[nth(N, j)]
                       /\ db_feed[f].entry_hashes[j] = fingerprint_of(ue[j])
                /\ feed[f].entry_hashes = <<>> =>
                       Len(ue) = Cardinality({i \in 1..Len(d[f].entries) :
                                                 d[f].entries[i].guid # 0
                                                 \/ d[f].entries[i].link # 0})
                /\ (N = {}) <=> (result[f] = NOT_UPDATED)

C11_Witness ==
    \E f \in Feeds :
        /\ C11_Case(f)
        /\ d[f].entries = <<Entry(0, 0), Entry(0, 204)>>
        /\ feed[f].entry_hashes = <<>>
        /\ updated_entries[f] = <<Entry(0, 204)>>
        /\ result[f] = UPDATED

\* C12: a poll starts one __notify_all for each newly-seen entry and for no other
\* entry; each __notify_all attempts one delivery to each subscription it read as
\* active and to nobody else, so that a subscription still active has had its
\* attempt; in a poll with outcome updated every one of these attempts is over,
\* and a poll with another outcome has started no __notify_all and no delivery
\* of an entry.
C12_FanoutOncePerNewEntry ==
    \A f \in Feeds :
        /\ Len(updated_entries[f]) =
               IF fetched(f) /\ d[f].rss_d THEN Cardinality(new_indices(f)) ELSE 0
        /\ \A k \in 1..Len(updated_entries[f]) :
               \A j \in 1..Len(feed[f].entry_hashes) :
                   feed[f].entry_hashes[j] # fingerprint_of(updated_entries[f][k])
        /\ \A k \in 1..MaxNew :
               /\ notify_pc[f][k] # "none" <=> k <= Len(updated_entries[f])
               /\ notify_pc[f][k] # "sending" =>
                      \A u \in Users : send_pc[f][k][u] = "none"
               /\ notify_pc[f][k] = "sending" =>
                      /\ active_subs(f) \subseteq notify_subs[f][k]
                      /\ \A u \in Users :
                             send_pc[f][k][u] # "none" <=> u \in notify_subs[f][k]
        /\ result[f] = UPDATED =>
               /\ updated_entries[f] # <<>>
               /\ \A k \in 1..Len(updated_entries[f]) :
                      /\ notify_pc[f][k] = "sending"
                      /\ \A u \in notify_subs[f][k] :
                             send_pc[f][k][u] \in {"sent", "dropped", "unsubbed"}
        /\ result[f] \in Outcomes \ {UPDATED} =>
               /\ updated_entries[f] = <<>>
               /\ \A k \in 1..MaxNew, u \in Users : send_pc[f][k][u] = "none"

C12_Witness ==
    \E f \in Feeds :
        /\ result[f] = UPDATED
        /\ d[f].entries = <<Entry(201, 9), Entry(1, 1)>>
        /\ updated_entries[f] = <<Entry(201, 9)>>
        /\ \A u \in Users : send_pc[f][1][u] = "sent" /\ send_pc[f][2][u] = "none"

\* the poll of f has passed its due check, at the time the clock still shows
C13_Case(f) == f \in tasks /\ pc[f] \notin {"idle", "start"} /\ clock_unmoved

\* C13: a poll of a feed whose next_check_time is set and later than the current
\* time returns skipped, and only such a poll does; it issues no fetch, saves
\* nothing and leaves error_count, next_check_time, the stored hashes and the
\* caching headers as they were; it notifies nobody.
C13_SkippedFrame ==
    \A f \in Feeds :
        C13_Case(f) =>
            /\ (feed[f].next_check_time # None /\ now < feed[f].next_check_time)
                   <=> (result[f] = SKIPPED)
            /\ result[f] = SKIPPED =>
                   /\ pc[f] = "done"
                   /\ d[f] = NoFetch
                   /\ saves[f] = 0
                   /\ db_feed[f] = feed[f]
                   /\ updated_entries[f] = <<>>
                   /\ \A k \in Slots, u \in Users : send_pc[f][k][u] = "none"

C13_Witness ==
    \E f \in Feeds :
        /\ C13_Case(f)
        /\ result[f] = SKIPPED
        /\ db_feed[f].error_count >= 10
        /\ db_feed[f].next_check_time > now
        /\ prev[f].result = FAILED

\* the intervals and the error counts the delay is compared at
MaxInterval == 20
C14_Counts == {10, 20, 30, 40, 50, 60}

\* C14: for a fixed interval, the delay computed at error_count 10, 20, 30, 40,
\* 50, 60 never decreases as error_count grows, and it is the same from 40 on, the
\* first error_count with error_count // 10 + 1 >= 5; the delay stored by a failed
\* poll at one of these counts is that delay, when it exceeds the interval.
C14_BackoffMonotone ==
    /\ \A i \in 1..MaxInterval : \A e1 \in C14_Counts, e2 \in C14_Counts :
           e1 <= e2 => next_check_interval(i, e1) <= next_check_interval(i, e2)
    /\ \A i \in 1..MaxInterval : \A e \in C14_Counts :
           (e \div 10 + 1 >= 5) <=> (e >= 40)
    /\ \A i \in 1..MaxInterval : \A e \in C14_Counts :
           e >= 40 => next_check_interval(i, e) = next_check_interval(i, 40)
    /\ \A f \in Feeds :
           (/\ poll_over(f) /\ fetch_error(f) /\ clock_unmoved
            /\ feed[f].error_count < ErrorLimit
            /\ db_feed[f].error_count \in C14_Counts)
               => LET i == interval_of(feed[f])
                      delay == next_check_interval(i, db_feed[f].error_count)
                  IN  /\ delay = (IF i < 15 THEN i ELSE 15)
                                     * (IF db_feed[f].error_count >= 40 THEN 5
                                        ELSE db_feed[f].error_count \div 10 + 1)
                      /\ db_feed[f].next_check_time =
                             IF delay > i THEN now + delay ELSE feed[f].next_check_time

C14_Witness ==
    \E f \in Feeds :
        /\ poll_over(f) /\ fetch_error(f) /\ clock_unmoved
        /\ db_feed[f].error_count = 60
        /\ db_feed[f].interval = 0
        /\ db_feed[f].next_check_time = now + 50
        /\ prev[f].result \in {FAILED, SKIPPED}

\* the __send coroutines for user u inside unsub_all
unsub_all_in_progress(u) ==
    {fk \in Feeds \X Slots : send_pc[fk[1]][fk[2]][u] = "unsub"}

\* at most one unsub_all per user is in progress, and the user's lock is held
\* exactly while one is
C15_Exclusive ==
    \A u \in Users :
        /\ Cardinality(unsub_all_in_progress(u)) <= 1
        /\ lock[u] <=> unsub_all_in_progress(u) # {}

\* a permanent failure met while the lock is held returns at once, without
\* unsub_all and leaving the lock to its holder; one met while it is free takes
\* it; the end of unsub_all, whether it returns or raises, releases it
C15_Step ==
    \A f \in Feeds, k \in Slots, u \in Users :
        /\ (send_pc[f][k][u] = "sending" /\ send_pc'[f][k][u] \in SendPermanent) =>
               /\ send_pc'[f][k][u] = IF lock[u] THEN "dropped" ELSE "unsub"
               /\ lock'[u]
               /\ sub_state' = sub_state
        /\ (send_pc[f][k][u] = "unsub" /\ send_pc'[f][k][u] # "unsub") =>
               /\ send_pc'[f][k][u] \in {"unsubbed", "unsub_raised"}
               /\ ~lock'[u]

\* C15: two unsub_all executions for the same user are never in progress at the
\* same time: a permanent delivery failure observed while the user's lock is held
\* returns immediately without waiting for the lock and without calling
\* unsub_all, and the lock is released when unsub_all finishes, also when it
\* fails.
C15_NoConcurrentUnsubscribe == [](C15_Exclusive) /\ [][C15_Step]_vars

C15_Witness ==
    \E u \in Users :
        /\ ~lock[u]
        /\ \E fk \in Feeds \X Slots : send_pc[fk[1]][fk[2]][u] = "unsub_raised"
        /\ \E fk \in Feeds \X Slots : send_pc[fk[1]][fk[2]][u] = "dropped"

\* C16: with the timer firing and the coroutines running on, an active feed whose
\* every fetch fails is eventually deactivated; a skipped poll of it is followed
\* by a poll that fetches, and as long as it is active each failed fetch below the
\* threshold leaves its error_count greater than it was.
C16_EventuallyDeactivated ==
    \A f \in Feeds :
        /\ (db_feed[f].state = 1 /\ remote[f] = Unreachable) ~> (db_feed[f].state = 0)
        /\ (db_feed[f].state = 1 /\ result[f] = SKIPPED) ~> fetched(f)
        /\ [](poll_over(f) /\ fetch_error(f) /\ feed[f].error_count < ErrorLimit
                  => db_feed[f].error_count > feed[f].error_count)

C16_Witness ==
    \E f \in Feeds :
        /\ remote[f] = Unreachable
        /\ db_feed[f].state = 0
        /\ db_feed[f].interval = 0
        /\ prev[f].result = SKIPPED
        /\ pc[f] = "done" /\ result[f] = FAILED

\* C17: on an updated poll the stored history becomes the new fingerprints, in
\* the order of their entries, followed by the old history from its head on, cut
\* where the whole reaches max(2 * number of fetched entries, 100): every new
\* fingerprint comes before every old one that is kept, the old ones keep their
\* order, and what is dropped is the tail of the old history.
C17_MergeOrder ==
    \A f \in Feeds :
        updated_path(f) =>
            LET new == updated_entries[f]
                old == feed[f].entry_hashes
                merged == db_feed[f].entry_hashes
                cap == IF 2 * Len(d[f].entries) > 100 THEN 2 * Len(d[f].entries) ELSE 100
                kept == Len(merged) - Len(new)
            IN  /\ Len(new) >= 1
                /\ kept >= 0
                /\ kept = (IF Len(old) <= cap - Len(new) THEN Len(old) ELSE cap - Len(new))
                /\ \A j \in 1..Len(new) : merged[j] = fingerprint_of(new[j])
                /\ \A j \in 1..kept : merged[Len(new) + j] = old[j]

C17_Witness ==
    \E f \in Feeds :
        /\ result[f] = UPDATED
        /\ Len(feed[f].entry_hashes) = 100
        /\ Len(updated_entries[f]) = 1
        /\ Len(db_feed[f].entry_hashes) = 100
        /\ db_feed[f].entry_hashes[100] = feed[f].entry_hashes[99]

\* the polls of the cycle that returned one of the outcomes S
polls_with(S) == Cardinality({f \in tasks : result[f] \in S})

\* C18: when a cycle over at least one feed has passed its tallies to
\* MonitoringLogs.log, not_updated + updated + failed + skipped is the number of
\* feeds polled; cached and empty are each counted in not_updated as well, so
\* that cached + empty <= not_updated; and every poll's outcome is counted in
\* exactly one of the four summed tallies.
C18_TalliesSum ==
    cycle_pc = "returned" =>
        /\ tasks # {}
        /\ \A f \in tasks : result[f] \in Outcomes
        /\ last_log.not_updated + last_log.updated + last_log.failed + last_log.skipped
               = Cardinality(tasks)
        /\ last_log.cached + last_log.empty <= last_log.not_updated
        /\ last_log.not_updated = polls_with({NOT_UPDATED, CACHED, EMPTY})
        /\ last_log.cached = polls_with({CACHED})
        /\ last_log.empty = polls_with({EMPTY})
        /\ last_log.updated = polls_with({UPDATED})
        /\ last_log.failed = polls_with({FAILED})
        /\ last_log.skipped = polls_with({SKIPPED})

C18_Witness ==
    /\ cycle_pc = "returned"
    /\ tasks = Feeds
    /\ last_log.not_updated = 2
    /\ last_log.cached = 1
    /\ last_log.empty = 1

\* the fingerprints of the entries of a fetched feed
fingerprints_in(entries) ==
    {fingerprint_of(entries[i]) : i \in 1..Len(entries)} \ {None}

\* no two notifications of one poll are for the same fingerprint
C19_OncePerPoll ==
    \A f \in Feeds :
        \A j \in 1..Len(updated_entries[f]), k \in 1..Len(updated_entries[f]) :
            j # k => fingerprint_of(updated_entries[f][j])
                         # fingerprint_of(updated_entries[f][k])

\* an entry of the last fetch, which was notified then or known before, is not
\* notified by this poll if it is still in the feed
C19_OnceAcrossPolls ==
    \A f \in Feeds :
        (prev[f].polled /\ prev[f].status = 200
         /\ prev[f].result \in {UPDATED, NOT_UPDATED})
            => \A k \in 1..Len(updated_entries[f]) :
                   fingerprint_of(updated_entries[f][k])
                       \notin fingerprints_in(prev[f].entries)

\* C19: over the polls of one feed, an entry that was notified and is still in
\* every later fetched feed is not notified again, and within one poll no two
\* notifications are for the same fingerprint, also when the feed lists an
\* identifier twice and when the cap drops old fingerprints.
C19_NoDuplicateNotification == C19_OncePerPoll /\ C19_OnceAcrossPolls

\* C20: error_count, at most 100 at the start, never exceeds 100: a failed fetch
\* below 100 increments it by exactly 1, saves once and returns failed; a failed
\* fetch at 100 or more runs the deactivation flow, leaving error_count and
\* next_check_time as they were and saving nothing.
C20_ErrorCountBounded ==
    \A f \in Feeds :
        /\ feed[f].error_count <= ErrorLimit
        /\ db_feed[f].error_count <= ErrorLimit
        /\ fetch_error(f) =>
               IF feed[f].error_count < ErrorLimit
               THEN /\ db_feed[f].error_count = feed[f].error_count + 1
                    /\ saves[f] = 1
                    /\ db_feed[f].state = 1
                    /\ pc[f] = "done" /\ result[f] = FAILED
               ELSE /\ db_feed[f].error_count = feed[f].error_count
                    /\ db_feed[f].next_check_time = feed[f].next_check_time
                    /\ saves[f] = 0
                    /\ pc[f] \in {"deactivating", "noticing", "done", "raised"}
                    /\ pc[f] # "deactivating" => db_feed[f].state = 0

C20_Witness ==
    \E f \in Feeds :
        /\ fetch_error(f)
        /\ prev[f].result = FAILED
        /\ feed[f].error_count = ErrorLimit
        /\ db_feed[f].error_count = ErrorLimit
        /\ db_feed[f].state = 0
        /\ saves[f] = 0
        /\ pc[f] = "done"

====
